---- MODULE Spec2Model ----
(***************************************************************************)
(* A state-machine model of the terminal screenshot scaffold of            *)
(* src/internal/img/output.go: the content buffer with its column wrap,    *)
(* the colour resolver, the font and colorscheme loaders, the layout       *)
(* measurement, the canvas geometry and the glyph pass of image() and the  *)
(* canvas trim of WritePNG.                                                *)
(*                                                                         *)
(* Lengths are pixels.  The setters are called with integer arguments, so  *)
(* every length is an integer except the content height, which carries the *)
(* line spacing 1.2 and is kept in fifths of a pixel.                      *)
(* A bunt.ColoredRune is [Symbol, Settings]; the 64-bit Settings word is   *)
(* kept as [flags, fg, bg]: flags is the low byte (bit 0 foreground set,   *)
(* bit 1 background set, bits 2..4 bold, italic, underline), fg the bytes  *)
(* at bits 8..31 and bg the bytes at bits 32..55, each as <<r, g, b>>.     *)
(***************************************************************************)
EXTENDS Integers, Sequences, FiniteSets, TLC

VARIABLES
    s,            \* the Scaffold
    termColumns,  \* the width term.GetTerminalSize reports
    environ,      \* TS_COMMAND_INDICATOR in the environment of the process
    op,           \* the last operation called and the error it returned
    input,        \* the decoded argument of the last AddContent
    appended,     \* history: every symbol a successful AddContent was given
    raw,          \* what the last WriteRaw wrote to its writer
    png,          \* what the last WritePNG handed to the encoder
    query,        \* the triple of the last mapStandardColor call
    answer,       \* the result of the last mapStandardColor call
    img,          \* the raster image() returned to the canvas trim
    sub,          \* the raster the canvas trim returned
    drawn,        \* what the glyph pass of the last WritePNG did, symbol by symbol
    nOps          \* number of operations called so far

vars == <<s, termColumns, environ, op, input, appended, raw, png, query, answer, img, sub, drawn, nOps>>

-----------------------------------------------------------------------------
(* Bounds of the model *)

MaxOps == 2
MaxInput == 2
MaxWrapInput == 4
MaxColumns == 2
MaxPaths == 4
MaxRasterW == 3
MaxRasterH == 2
MaxRenderInput == 3
MaxGlyphInput == 2

-----------------------------------------------------------------------------
(* Helpers *)

Min(a, b) == IF a < b THEN a ELSE b
Max(a, b) == IF a > b THEN a ELSE b

RECURSIVE SeqsUpTo(_, _)
SeqsUpTo(S, n) ==
    IF n = 0 THEN {<<>>}
    ELSE LET shorter == SeqsUpTo(S, n - 1)
         IN shorter \cup {Append(q, x) : q \in shorter, x \in S}

IsPrefix(p, q) == Len(p) <= Len(q) /\ SubSeq(q, 1, Len(p)) = p

NL == "\n"

-----------------------------------------------------------------------------
(* bunt.ColoredRune *)

NoRGB == <<0, 0, 0>>
Plain == [flags |-> 0, fg |-> NoRGB, bg |-> NoRGB]
Bold == [flags |-> 4, fg |-> NoRGB, bg |-> NoRGB]
Foreground(rgb) == [flags |-> 1, fg |-> rgb, bg |-> NoRGB]

Rune(sym, settings) == [Symbol |-> sym, Settings |-> settings]

Symbols(runes) == [i \in 1..Len(runes) |-> runes[i].Symbol]

\* bunt.Lime and bunt.DimGray, the colours AddCommand uses
Lime == <<0, 255, 0>>
DimGray == <<105, 105, 105>>
LightGray == <<211, 211, 211>>

-----------------------------------------------------------------------------
(* Files the loaders read (os.ReadFile, truetype.Parse, opentype.Parse,    *)
(* opentype.NewFace, json.Unmarshal): a font file is unreadable, or        *)
(* unparsable, or an OpenType font no face can be made of, or a font; a    *)
(* colorscheme file is unreadable, or holds text that is no JSON, a JSON   *)
(* array of scheme objects, or one scheme object.  A hex colour is the     *)
(* sequence of its characters.                                             *)

FontPaths == {"hack.ttf", "fira.otf", "broken.ttf", "noface.otf", "missing.otf"}

\* readable: os.ReadFile succeeds; parsable: truetype.Parse or opentype.Parse
\* succeeds; faceable: opentype.NewFace succeeds on the parsed font
ReadFont(fontPath) ==
    CASE fontPath = "hack.ttf"    -> [readable |-> TRUE,  parsable |-> TRUE,  faceable |-> TRUE]
      [] fontPath = "fira.otf"    -> [readable |-> TRUE,  parsable |-> TRUE,  faceable |-> TRUE]
      [] fontPath = "broken.ttf"  -> [readable |-> TRUE,  parsable |-> FALSE, faceable |-> FALSE]
      [] fontPath = "noface.otf"  -> [readable |-> TRUE,  parsable |-> TRUE,  faceable |-> FALSE]
      [] OTHER                    -> [readable |-> FALSE, parsable |-> FALSE, faceable |-> FALSE]

\* strings.HasSuffix(strings.ToLower(fontPath), ".ttf")
IsTTF(fontPath) == fontPath \in {"hack.ttf", "broken.ttf"}

\* truetype.NewFace / opentype.NewFace: the face made from the file
NewFace(fontPath) == fontPath

H(a, b, c, d, e, f) == <<"#", a, b, c, d, e, f>>

NoScheme == [k \in {} |-> <<>>]

SchemeRed == [k \in {"color1"} |-> H("1","1","2","2","3","3")]

SchemeFull ==
    [k \in {"color1", "color9", "foreground", "background"} |->
        CASE k = "color1"     -> H("A","A","0","0","0","0")
          [] k = "color9"     -> <<"0","0","0","0","b","b">>
          [] k = "foreground" -> H("F","F","F","F","F","F")
          [] OTHER            -> H("0","0","0","0","0","0")]

\* color2 is one character short
SchemeBadSlot ==
    [k \in {"color1", "color2", "foreground"} |->
        CASE k = "color1"     -> H("4","4","5","5","6","6")
          [] k = "color2"     -> <<"#","1","2","3","4","5">>
          [] OTHER            -> H("0","1","0","2","0","3")]

\* foreground is no hex number
SchemeBadForeground ==
    [k \in {"color3", "foreground", "background"} |->
        CASE k = "color3"     -> H("0","1","0","2","0","3")
          [] k = "foreground" -> H("G","G","0","0","0","0")
          [] OTHER            -> H("0","A","0","B","0","C")]

\* background is too long
SchemeBadBackground ==
    [k \in {"foreground", "background"} |->
        CASE k = "foreground" -> H("0","A","0","B","0","C")
          [] OTHER            -> <<"#","1","2","3","4","5","6","7">>]

\* overrides of the bright slots only
SchemeBright ==
    [k \in {"color9", "color12"} |->
        IF k = "color9" THEN H("F","F","5","5","5","5") ELSE H("5","5","5","5","F","F")]

\* overrides of black, blue and dark gray
SchemeBase ==
    [k \in {"color0", "color4", "color8"} |->
        CASE k = "color0" -> H("0","1","0","1","0","1")
          [] k = "color4" -> H("0","4","0","4","4","4")
          [] OTHER        -> H("0","8","0","8","0","8")]

ColorschemeFiles ==
    {"red.json", "full.json", "bright.json", "base.json", "empty.json", "badslot.json", "badfg.json",
     "badbg.json", "notjson.json", "emptyarray.json", "missing.json"}

ReadColorscheme(colorschemeFile) ==
    CASE colorschemeFile = "red.json" ->
            [readable |-> TRUE, kind |-> "object", schemes |-> <<SchemeRed>>]
      [] colorschemeFile = "full.json" ->
            [readable |-> TRUE, kind |-> "array", schemes |-> <<SchemeFull, SchemeRed>>]
      [] colorschemeFile = "bright.json" ->
            [readable |-> TRUE, kind |-> "object", schemes |-> <<SchemeBright>>]
      [] colorschemeFile = "base.json" ->
            [readable |-> TRUE, kind |-> "array", schemes |-> <<SchemeBase>>]
      [] colorschemeFile = "empty.json" ->
            [readable |-> TRUE, kind |-> "object", schemes |-> <<NoScheme>>]
      [] colorschemeFile = "badslot.json" ->
            [readable |-> TRUE, kind |-> "object", schemes |-> <<SchemeBadSlot>>]
      [] colorschemeFile = "badfg.json" ->
            [readable |-> TRUE, kind |-> "array", schemes |-> <<SchemeBadForeground>>]
      [] colorschemeFile = "badbg.json" ->
            [readable |-> TRUE, kind |-> "object", schemes |-> <<SchemeBadBackground>>]
      [] colorschemeFile = "notjson.json" ->
            [readable |-> TRUE, kind |-> "malformed", schemes |-> <<>>]
      [] colorschemeFile = "emptyarray.json" ->
            [readable |-> TRUE, kind |-> "array", schemes |-> <<>>]
      [] OTHER ->
            [readable |-> FALSE, kind |-> "malformed", schemes |-> <<>>]

-----------------------------------------------------------------------------
(* Font metrics of the font rasteriser: the line height of a face          *)
(* (Metrics().Height >> 6) and the advance of one glyph in 26.6 fixed      *)
(* point, for the monospaced faces used here.                              *)

FaceHeight(face) == IF face = "fira.otf" THEN 60 ELSE 56

FaceAdvance(face) == IF face = "fira.otf" THEN 1920 ELSE 1849

-----------------------------------------------------------------------------
(* The Scaffold *)

NilMap == [isNil |-> TRUE, entries |-> <<>>]
EmptyMap == [isNil |-> FALSE, entries |-> <<>>]

Exists(m, k) == k \in DOMAIN m.entries

Put(m, k, v) ==
    [isNil |-> FALSE,
     entries |-> [i \in DOMAIN m.entries \cup {k} |-> IF i = k THEN v ELSE m.entries[i]]]

NewImageCreator ==
    LET f == 2 IN
    [content |-> <<>>,
     factor |-> f,
     columns |-> 0,
     defaultForegroundColor |-> LightGray,
     defaultBackgroundColor |-> <<21, 21, 21>>,
     customColors |-> NilMap,
     clipCanvas |-> FALSE,
     drawDecorations |-> TRUE,
     drawShadow |-> TRUE,
     shadowRadius |-> Min(f * 16, 255),
     shadowOffsetX |-> f * 16,
     shadowOffsetY |-> f * 16,
     paddingTop |-> f * 24,
     paddingRight |-> f * 24,
     paddingBottom |-> f * 24,
     paddingLeft |-> f * 24,
     drawBorder |-> TRUE,
     marginTop |-> f * 48,
     marginRight |-> f * 48,
     marginBottom |-> f * 48,
     marginLeft |-> f * 48,
     regular |-> "Hack-Regular",
     bold |-> "Hack-Bold",
     italic |-> "Hack-Italic",
     boldItalic |-> "Hack-BoldItalic",
     lineSpacingNum |-> 6,
     lineSpacingDen |-> 5,
     tabSpaces |-> 2]

SetFontFaceRegular(sc, face) == [sc EXCEPT !.regular = face]
SetFontFaceBold(sc, face) == [sc EXCEPT !.bold = face]
SetFontFaceItalic(sc, face) == [sc EXCEPT !.italic = face]
SetFontFaceBoldItalic(sc, face) == [sc EXCEPT !.boldItalic = face]

SetColumns(sc, columns) == [sc EXCEPT !.columns = columns]
DrawDecorations(sc, value) == [sc EXCEPT !.drawDecorations = value]
DrawShadow(sc, value) == [sc EXCEPT !.drawShadow = value]
ClipCanvas(sc, value) == [sc EXCEPT !.clipCanvas = value]
DrawBorder(sc, value) == [sc EXCEPT !.drawBorder = value]

SetPadding(sc, top, right, bottom, left) ==
    [sc EXCEPT !.paddingTop = sc.factor * top,
               !.paddingRight = sc.factor * right,
               !.paddingBottom = sc.factor * bottom,
               !.paddingLeft = sc.factor * left]

SetMargin(sc, top, right, bottom, left) ==
    [sc EXCEPT !.marginTop = sc.factor * top,
               !.marginRight = sc.factor * right,
               !.marginBottom = sc.factor * bottom,
               !.marginLeft = sc.factor * left]

SetHorizontalPadding(sc, value) ==
    [sc EXCEPT !.paddingLeft = sc.factor * value, !.paddingRight = sc.factor * value]

SetVerticalPadding(sc, value) ==
    [sc EXCEPT !.paddingTop = sc.factor * value, !.paddingBottom = sc.factor * value]

SetHorizontalMargin(sc, value) ==
    [sc EXCEPT !.marginLeft = sc.factor * value, !.marginRight = sc.factor * value]

SetVerticalMargin(sc, value) ==
    [sc EXCEPT !.marginTop = sc.factor * value, !.marginBottom = sc.factor * value]

-----------------------------------------------------------------------------
(* LoadCustomFonts: the result is [s, err]; err = "" is a nil error         *)

Result(sc, err) == [s |-> sc, err |-> err]

\* the switch without the case of a single path
ApplyFontPositional(sc, i, n, face) ==
    CASE i % 4 = 0 -> [sc EXCEPT !.regular = face]
      [] i % 4 = 1 -> [sc EXCEPT !.bold = face]
      [] i % 4 = 2 -> [sc EXCEPT !.italic = face]
      [] OTHER     -> [sc EXCEPT !.boldItalic = face]

\* the switch i % 4 of the loop body
ApplyFont(sc, i, n, face) ==
    CASE i % 4 = 0 ->
            IF n = 1
            THEN [sc EXCEPT !.regular = face, !.bold = face,
                            !.italic = face, !.boldItalic = face]
            ELSE [sc EXCEPT !.regular = face]
      [] i % 4 = 1 -> [sc EXCEPT !.bold = face]
      [] i % 4 = 2 -> [sc EXCEPT !.italic = face]
      [] OTHER     -> [sc EXCEPT !.boldItalic = face]

\* the loop over fontPaths from index i (0-based) on
RECURSIVE LoadFontsFrom(_, _, _)
LoadFontsFrom(sc, fontPaths, i) ==
    IF i >= Len(fontPaths) THEN Result(sc, "")
    ELSE LET fontPath == fontPaths[i + 1]
             file == ReadFont(fontPath)
         IN IF ~file.readable THEN Result(sc, "failed to read font file")
            ELSE IF ~file.parsable
                 THEN Result(sc, IF IsTTF(fontPath) THEN "failed to parse TTF font"
                                                    ELSE "failed to parse font")
                 ELSE IF ~IsTTF(fontPath) /\ ~file.faceable
                      THEN Result(sc, "failed to create font face")
                      ELSE LoadFontsFrom(ApplyFont(sc, i, Len(fontPaths), NewFace(fontPath)),
                                         fontPaths, i + 1)

LoadCustomFonts(sc, fontPaths) == LoadFontsFrom(sc, fontPaths, 0)

-----------------------------------------------------------------------------
(* LoadColorscheme *)

HexDigit(c) ==
    CASE c = "0" -> 0 [] c = "1" -> 1 [] c = "2" -> 2 [] c = "3" -> 3
      [] c = "4" -> 4 [] c = "5" -> 5 [] c = "6" -> 6 [] c = "7" -> 7
      [] c = "8" -> 8 [] c = "9" -> 9
      [] c \in {"a", "A"} -> 10 [] c \in {"b", "B"} -> 11
      [] c \in {"c", "C"} -> 12 [] c \in {"d", "D"} -> 13
      [] c \in {"e", "E"} -> 14 [] c \in {"f", "F"} -> 15
      [] OTHER -> -1

NilColor == <<>>

\* the result is [c, err]
parseHexColor(hexStr) ==
    LET h == IF Len(hexStr) > 0 /\ hexStr[1] = "#" THEN Tail(hexStr) ELSE hexStr
    IN IF Len(h) # 6
       THEN [c |-> NilColor, err |-> "hex color must be 6 characters long"]
       ELSE IF \E i \in 1..6 : HexDigit(h[i]) < 0
            THEN [c |-> NilColor, err |-> "invalid hex color"]
            ELSE [c |-> <<16 * HexDigit(h[1]) + HexDigit(h[2]),
                          16 * HexDigit(h[3]) + HexDigit(h[4]),
                          16 * HexDigit(h[5]) + HexDigit(h[6])>>,
                  err |-> ""]

\* fmt.Sprintf("color%d", i)
ColorKey(i) ==
    <<"color0", "color1", "color2", "color3", "color4", "color5", "color6", "color7",
      "color8", "color9", "color10", "color11", "color12", "color13", "color14",
      "color15">>[i + 1]

\* the loop over the 16 slots from slot i on, then foreground and background
RECURSIVE ApplySlotsFrom(_, _, _)
ApplySlotsFrom(sc, colors, i) ==
    IF i >= 16 THEN Result(sc, "")
    ELSE IF ColorKey(i) \in DOMAIN colors
         THEN LET p == parseHexColor(colors[ColorKey(i)])
              IN IF p.err # "" THEN Result(sc, "invalid color")
                 ELSE ApplySlotsFrom(
                        [sc EXCEPT !.customColors = Put(sc.customColors, i, p.c)],
                        colors, i + 1)
         ELSE ApplySlotsFrom(sc, colors, i + 1)

ApplyBackground(sc, colors) ==
    IF "background" \in DOMAIN colors
    THEN LET p == parseHexColor(colors["background"])
         IN IF p.err # "" THEN Result(sc, "invalid background color")
            ELSE Result([sc EXCEPT !.defaultBackgroundColor = p.c], "")
    ELSE Result(sc, "")

ApplyForeground(sc, colors) ==
    IF "foreground" \in DOMAIN colors
    THEN LET p == parseHexColor(colors["foreground"])
         IN IF p.err # "" THEN Result(sc, "invalid foreground color")
            ELSE ApplyBackground([sc EXCEPT !.defaultForegroundColor = p.c], colors)
    ELSE ApplyBackground(sc, colors)

ApplyScheme(sc, colors) ==
    LET slots == ApplySlotsFrom(sc, colors, 0)
    IN IF slots.err # "" THEN slots ELSE ApplyForeground(slots.s, colors)

LoadColorscheme(sc, colorschemeFile) ==
    LET data == ReadColorscheme(colorschemeFile)
        cleared == [sc EXCEPT !.customColors = EmptyMap]
    IN IF ~data.readable THEN Result(sc, "failed to read colorscheme file")
       ELSE IF data.kind = "array" /\ Len(data.schemes) > 0
            THEN ApplyScheme(cleared, data.schemes[1])
            ELSE IF data.kind = "object"
                 THEN ApplyScheme(cleared, data.schemes[1])
                 ELSE Result(cleared, "failed to parse colorscheme JSON")

-----------------------------------------------------------------------------
(* The colour resolver *)

getColor(sc, ansiColorIndex, fallbackColor) ==
    IF ~sc.customColors.isNil /\ Exists(sc.customColors, ansiColorIndex)
    THEN sc.customColors.entries[ansiColorIndex]
    ELSE fallbackColor

\* the map literal of mapStandardColor, in source order: <<r, g, b, slot>>
standardColors ==
    << <<0, 0, 0, 0>>, <<128, 0, 0, 1>>, <<0, 128, 0, 2>>, <<128, 128, 0, 3>>,
       <<0, 0, 128, 4>>, <<128, 0, 128, 5>>, <<0, 128, 128, 6>>, <<192, 192, 192, 7>>,
       <<128, 128, 128, 8>>, <<255, 0, 0, 9>>, <<0, 255, 0, 10>>, <<255, 255, 0, 11>>,
       <<0, 0, 255, 12>>, <<255, 0, 255, 13>>, <<0, 255, 255, 14>>, <<255, 255, 255, 15>>,
       <<0, 0, 0, 0>>, <<205, 0, 0, 1>>, <<0, 205, 0, 2>>, <<205, 205, 0, 3>>,
       <<0, 0, 238, 4>>, <<205, 0, 205, 5>>, <<0, 205, 205, 6>>, <<229, 229, 229, 7>>,
       <<127, 127, 127, 8>>, <<255, 0, 0, 9>>, <<0, 255, 0, 10>>, <<255, 255, 0, 11>>,
       <<92, 92, 255, 12>>, <<255, 0, 255, 13>>, <<0, 255, 255, 14>>, <<255, 255, 255, 15>>,
       <<0, 0, 0, 0>>, <<194, 54, 33, 1>>, <<37, 188, 36, 2>>, <<173, 173, 39, 3>>,
       <<73, 46, 225, 4>>, <<211, 56, 211, 5>>, <<51, 187, 200, 6>>, <<203, 204, 205, 7>>,
       <<129, 131, 131, 8>>, <<252, 57, 31, 9>>, <<49, 231, 34, 10>>, <<234, 236, 35, 11>>,
       <<88, 51, 255, 12>>, <<249, 53, 248, 13>>, <<20, 240, 240, 14>>, <<233, 235, 235, 15>> >>

\* the positions of the literal whose key is <<r, g, b>>
StandardEntries(r, g, b) ==
    {i \in 1..Len(standardColors) :
        standardColors[i][1] = r /\ standardColors[i][2] = g /\ standardColors[i][3] = b}

\* standardColors[[3]int{r, g, b}]: the entry written last under the key
StandardLookup(r, g, b) ==
    LET hits == StandardEntries(r, g, b)
    IN IF hits = {} THEN [found |-> FALSE, colorIndex |-> 0]
       ELSE [found |-> TRUE,
             colorIndex |-> standardColors[CHOOSE i \in hits : \A j \in hits : j <= i][4]]

ansiColors ==
    << <<0, 0, 0, 0>>, <<128, 0, 0, 1>>, <<0, 128, 0, 2>>, <<128, 128, 0, 3>>,
       <<0, 0, 128, 4>>, <<128, 0, 128, 5>>, <<0, 128, 128, 6>>, <<192, 192, 192, 7>>,
       <<128, 128, 128, 8>>, <<255, 0, 0, 9>>, <<0, 255, 0, 10>>, <<255, 255, 0, 11>>,
       <<0, 0, 255, 12>>, <<255, 0, 255, 13>>, <<0, 255, 255, 14>>, <<255, 255, 255, 15>> >>

Distance(r, g, b, ansiColor) ==
    LET dr == r - ansiColor[1]
        dg == g - ansiColor[2]
        db == b - ansiColor[3]
    IN dr * dr + dg * dg + db * db

\* the largest int the loop starts from (the model's integers are 32 bits wide)
MaxInt == 2147483647

AcceptanceThreshold == 10000

\* the loop of findClosestColor from entry k on: [minDistance, closestIndex]
RECURSIVE ClosestFrom(_, _, _, _, _, _)
ClosestFrom(r, g, b, k, minDistance, closestIndex) ==
    IF k > Len(ansiColors) THEN [minDistance |-> minDistance, closestIndex |-> closestIndex]
    ELSE LET distance == Distance(r, g, b, ansiColors[k])
         IN IF distance < minDistance
            THEN ClosestFrom(r, g, b, k + 1, distance, ansiColors[k][4])
            ELSE ClosestFrom(r, g, b, k + 1, minDistance, closestIndex)

\* the acceptance test with the threshold itself accepted
IsCloseInclusive(closest) ==
    closest.closestIndex >= 0 /\ closest.minDistance <= AcceptanceThreshold

IsClose(closest) ==
    closest.closestIndex >= 0 /\ closest.minDistance < AcceptanceThreshold

NoMatch == [color |-> NilColor, found |-> FALSE]

findClosestColor(sc, r, g, b) ==
    IF sc.customColors.isNil THEN NoMatch
    ELSE LET closest == ClosestFrom(r, g, b, 1, MaxInt, -1)
         IN IF IsClose(closest) /\ Exists(sc.customColors, closest.closestIndex)
            THEN [color |-> sc.customColors.entries[closest.closestIndex], found |-> TRUE]
            ELSE NoMatch

mapStandardColor(sc, r, g, b) ==
    IF sc.customColors.isNil THEN NoMatch
    ELSE LET exact == StandardLookup(r, g, b)
         IN IF exact.found /\ Exists(sc.customColors, exact.colorIndex)
            THEN [color |-> sc.customColors.entries[exact.colorIndex], found |-> TRUE]
            ELSE findClosestColor(sc, r, g, b)

-----------------------------------------------------------------------------
(* The content buffer *)

GetFixedColumns(sc, terminal) == IF sc.columns # 0 THEN sc.columns ELSE terminal

\* the loop with the symbol that triggers a wrap counted as the first column
\* of the new line
RECURSIVE WrapFromCounting(_, _, _, _, _)
WrapFromCounting(parsed, i, counter, tmp, fixedColumns) ==
    IF i > Len(parsed) THEN tmp
    ELSE LET cr == parsed[i]
             counted == IF cr.Symbol = NL THEN 0 ELSE counter + 1
         IN IF counted > fixedColumns
            THEN WrapFromCounting(parsed, i + 1, 1,
                                  tmp \o <<Rune(NL, cr.Settings), cr>>, fixedColumns)
            ELSE WrapFromCounting(parsed, i + 1, counted, Append(tmp, cr), fixedColumns)

\* the loop of AddContent over parsed from position i on: tmp at its end
RECURSIVE WrapFrom(_, _, _, _, _)
WrapFrom(parsed, i, counter, tmp, fixedColumns) ==
    IF i > Len(parsed) THEN tmp
    ELSE LET cr == parsed[i]
             counted == IF cr.Symbol = NL THEN 0 ELSE counter + 1
         IN IF counted > fixedColumns
            THEN WrapFrom(parsed, i + 1, 0,
                          tmp \o <<Rune(NL, cr.Settings), cr>>, fixedColumns)
            ELSE WrapFrom(parsed, i + 1, counted, Append(tmp, cr), fixedColumns)

\* AddContent with the buffer set to tmp instead of grown by it
AddContentReplacing(sc, terminal, in) ==
    IF in.err THEN Result(sc, "failed to parse input stream")
    ELSE Result([sc EXCEPT !.content =
                    WrapFrom(in.parsed, 1, 0, <<>>, GetFixedColumns(sc, terminal))],
                "")

\* in is what bunt.ParseStream makes of the reader: [err, parsed]
AddContent(sc, terminal, in) ==
    IF in.err THEN Result(sc, "failed to parse input stream")
    ELSE Result([sc EXCEPT !.content =
                    @ \o WrapFrom(in.parsed, 1, 0, <<>>, GetFixedColumns(sc, terminal))],
                "")

\* os.LookupEnv("TS_COMMAND_INDICATOR"): [ok, val]
Unset == [ok |-> FALSE, val |-> <<>>]
SetTo(val) == [ok |-> TRUE, val |-> val]

\* the package variable, made from the environment when the process starts
commandIndicator == IF environ.ok THEN environ.val ELSE <<"➜">>

RECURSIVE Join(_, _)
Join(args, sep) ==
    IF Len(args) = 0 THEN <<>>
    ELSE IF Len(args) = 1 THEN args[1]
         ELSE args[1] \o sep \o Join(Tail(args), sep)

Styled(text, settings) == [i \in 1..Len(text) |-> Rune(text[i], settings)]

\* the runes of bunt.Sprintf("Lime{%s} DimGray{%s}\n", commandIndicator, args...)
CommandLine(args) ==
    Styled(commandIndicator, Foreground(Lime)) \o <<Rune(" ", Plain)>>
        \o Styled(Join(args, <<" ">>), Foreground(DimGray)) \o <<Rune(NL, Plain)>>

AddCommand(sc, terminal, args) ==
    AddContent(sc, terminal, [err |-> FALSE, parsed |-> CommandLine(args)])

\* bunt.String.String(): an escape sequence wherever the settings change,
\* the symbols in between, and a reset at the end of styled text
RECURSIVE EncodeFrom(_, _, _)
EncodeFrom(content, i, current) ==
    IF i > Len(content) THEN (IF current # Plain THEN <<[sgr |-> Plain]>> ELSE <<>>)
    ELSE LET cr == content[i]
         IN (IF cr.Settings # current THEN <<[sgr |-> cr.Settings]>> ELSE <<>>)
              \o <<[sym |-> cr.Symbol]>> \o EncodeFrom(content, i + 1, cr.Settings)

ContentString(content) == EncodeFrom(content, 1, Plain)

\* WriteRaw writing the symbols without their styles
WriteRawUnstyled(sc, writerFails) ==
    IF writerFails THEN [written |-> <<>>, err |-> "write failed"]
    ELSE [written |-> ContentString(Styled(Symbols(sc.content), Plain)), err |-> ""]

\* the result is [written, err]
WriteRaw(sc, writerFails) ==
    IF writerFails THEN [written |-> <<>>, err |-> "write failed"]
    ELSE [written |-> ContentString(sc.content), err |-> ""]

-----------------------------------------------------------------------------
(* Layout *)

fontHeight(sc) == FaceHeight(sc.regular)

\* strings.TrimRight(text, "\n"): every trailing newline dropped
RECURSIVE TrimRightNL(_)
TrimRightNL(text) ==
    IF Len(text) > 0 /\ text[Len(text)] = NL
    THEN TrimRightNL(SubSeq(text, 1, Len(text) - 1))
    ELSE text

\* strings.TrimSuffix(text, "\n")
TrimSuffixNL(text) ==
    IF Len(text) > 0 /\ text[Len(text)] = NL THEN SubSeq(text, 1, Len(text) - 1) ELSE text

\* strings.Split(text, "\n")
RECURSIVE SplitNL(_, _, _)
SplitNL(text, i, line) ==
    IF i > Len(text) THEN <<line>>
    ELSE IF text[i] = NL THEN <<line>> \o SplitNL(text, i + 1, <<>>)
         ELSE SplitNL(text, i + 1, Append(line, text[i]))

Lines(sc) == SplitNL(TrimSuffixNL(Symbols(sc.content)), 1, <<>>)

\* float64(tmpDrawer.MeasureString(line) >> 6) of a line of n glyphs
MeasureString(sc, n) == (n * FaceAdvance(sc.regular)) \div 64

\* [width, height]: the width in pixels, the height in 1/lineSpacingDen pixels
measureContent(sc, terminal) ==
    LET lines == Lines(sc)
        longest == IF sc.columns = 0
                   THEN LET widths == {MeasureString(sc, Len(lines[i])) : i \in 1..Len(lines)}
                        IN CHOOSE w \in widths \cup {0} : \A v \in widths \cup {0} : v <= w
                   ELSE MeasureString(sc, GetFixedColumns(sc, terminal))
    IN [width |-> longest,
        height |-> Len(lines) * fontHeight(sc) * sc.lineSpacingNum]

-----------------------------------------------------------------------------
(* image(): the geometry of the canvas and of the window drawn on it.      *)
(* Heights are in 1/lineSpacingDen pixels until int() cuts them.           *)

Scale(sc, value) == sc.factor * value

\* the title bar offset added without looking at the decorations toggle
titleOffsetAlways(sc) == Scale(sc, 40)

titleOffset(sc) == IF sc.drawDecorations THEN Scale(sc, 40) ELSE 0

\* int(x) of x = num/den >= 0
IntOf(num, den) == num \div den

\* the result is [img, err]; img is the canvas with the window placed on it
image(sc, terminal, blurFails) ==
    LET radius == Scale(sc, 9)
        distance == Scale(sc, 25)
        den == sc.lineSpacingDen
        measured == measureContent(sc, terminal)
        contentWidth == Max(measured.width, 3 * distance + 3 * radius)
        contentHeight == measured.height
        innerWidth == contentWidth + sc.paddingLeft + sc.paddingRight
        innerHeight == contentHeight + den * (sc.paddingTop + sc.paddingBottom + titleOffset(sc))
        width == innerWidth + sc.marginLeft + sc.marginRight
        height == innerHeight + den * (sc.marginTop + sc.marginBottom)
        xOffset == sc.marginLeft - (IF sc.drawShadow THEN sc.shadowOffsetX \div 2 ELSE 0)
        yOffset == sc.marginTop - (IF sc.drawShadow THEN sc.shadowOffsetY \div 2 ELSE 0)
    IN IF sc.drawShadow /\ blurFails
       THEN [img |-> [W |-> 0, H |-> 0], err |-> "blur failed"]
       ELSE [img |-> [W |-> IntOf(width, 1), H |-> IntOf(height, den),
                      contentWidth |-> contentWidth, contentHeight |-> contentHeight,
                      innerWidth |-> innerWidth, innerHeight |-> innerHeight,
                      xOffset |-> xOffset, yOffset |-> yOffset,
                      shadow |-> sc.drawShadow, border |-> sc.drawBorder,
                      decorations |-> sc.drawDecorations],
             err |-> ""]

NoImage == [W |-> 0, H |-> 0]

-----------------------------------------------------------------------------
(* The glyph pass of image(): one step per symbol of the content buffer.   *)
(* x is in pixels, y in 1/lineSpacingDen pixels.  A step records the face  *)
(* set, the cursor before and after, the colour set for the glyph, the     *)
(* background rectangle filled (if any), the string drawn (if any) and     *)
(* whether the underline was stroked.                                      *)

TAB == "\t"

\* the runes U+2717 and U+02E3 that are replaced, and U+00D7 that replaces them
Ballot == "U+2717"
SmallX == "U+02E3"
Times == "U+00D7"

\* cr.Settings & 0x1C
EmphasisBits(settings) == ((settings.flags \div 4) % 8) * 4

\* cr.Settings & 0x01 and cr.Settings & 0x02
ForegroundSet(settings) == settings.flags % 2 = 1
BackgroundSet(settings) == (settings.flags \div 2) % 2 = 1

\* the switch that sets the font face
SelectFace(sc, settings) ==
    CASE EmphasisBits(settings) = 4  -> sc.bold
      [] EmphasisBits(settings) = 8  -> sc.italic
      [] EmphasisBits(settings) = 12 -> sc.boldItalic
      [] OTHER                       -> sc.regular

\* w, h := dc.MeasureString(str) of one symbol under the face set
GlyphWidth(face) == FaceAdvance(face) \div 64
GlyphHeight(face) == FaceHeight(face)

\* the default foreground set instead of the triple carried in the style bits
ResolveDefault(sc, rgb) == sc.defaultForegroundColor

\* the colour set for a triple carried in the style bits
Resolve(sc, rgb) ==
    LET mapped == mapStandardColor(sc, rgb[1], rgb[2], rgb[3])
    IN IF mapped.found THEN mapped.color ELSE rgb

\* the test that guards the underline
UnderlineTest(settings) == EmphasisBits(settings) = 16

\* the string handed to dc.DrawString
DrawnString(sym) == IF sym \in {Ballot, SmallX} THEN Times ELSE sym

NoFill == <<>>

\* a tab advancing by one measured width
TabAdvanceOne(sc, w) == w

\* x += w * float64(s.tabSpaces)
TabAdvance(sc, w) == w * sc.tabSpaces

GlyphStep(sc, cr, x, y, left) ==
    LET face == SelectFace(sc, cr.Settings)
        w == GlyphWidth(face)
        h == GlyphHeight(face)
        isText == cr.Symbol \notin {NL, TAB}
    IN [Symbol |-> cr.Symbol,
        Settings |-> cr.Settings,
        face |-> face,
        x |-> x,
        y |-> y,
        background |-> IF BackgroundSet(cr.Settings) THEN Resolve(sc, cr.Settings.bg) ELSE NoFill,
        color |-> IF ForegroundSet(cr.Settings) THEN Resolve(sc, cr.Settings.fg)
                  ELSE sc.defaultForegroundColor,
        glyph |-> IF isText THEN <<DrawnString(cr.Symbol)>> ELSE <<>>,
        underline |-> isText /\ UnderlineTest(cr.Settings),
        xAfter |-> CASE cr.Symbol = NL  -> left
                     [] cr.Symbol = TAB -> x + TabAdvance(sc, w)
                     [] OTHER           -> x + w,
        yAfter |-> IF cr.Symbol = NL THEN y + h * sc.lineSpacingNum ELSE y]

RECURSIVE GlyphsFrom(_, _, _, _, _)
GlyphsFrom(sc, i, x, y, left) ==
    IF i > Len(sc.content) THEN <<>>
    ELSE LET step == GlyphStep(sc, sc.content[i], x, y, left)
         IN <<step>> \o GlyphsFrom(sc, i + 1, step.xAfter, step.yAfter, left)

\* the steps of the loop over s.content; none when the blur failed before it
GlyphPass(sc, terminal, blurFails) ==
    LET made == image(sc, terminal, blurFails)
        left == made.img.xOffset + sc.paddingLeft
        top == sc.lineSpacingDen
                 * (made.img.yOffset + sc.paddingTop + titleOffset(sc) + fontHeight(sc))
    IN IF made.err # "" THEN <<>> ELSE GlyphsFrom(sc, 1, left, top, left)

-----------------------------------------------------------------------------
(* The canvas trim of WritePNG on a raster [W, H, px]: px[x][y] is the      *)
(* stored pixel <<r, g, b, a>> at column x and row y, alpha-premultiplied.  *)

Transparent == <<0, 0, 0, 0>>
OpaqueBlack == <<0, 0, 0, 255>>
ShadowGray == <<6, 6, 6, 102>>

\* color.RGBA.RGBA(): each channel widened to 16 bits
RGBA16(pixel) == [i \in 1..4 |-> pixel[i] * 257]

isTransparent(pixel) ==
    LET c == RGBA16(pixel) IN c[1] = 0 /\ c[2] = 0 /\ c[3] = 0 /\ c[4] = 0

\* the pixels the scan visits and finds not transparent
Painted(raster) ==
    {p \in (0..raster.W - 1) \X (0..raster.H - 1) : ~isTransparent(raster.px[p[1]][p[2]])}

\* minX, minY, maxX, maxY at the end of the scan
ScanBounds(raster) ==
    LET painted == Painted(raster)
        xs == {p[1] : p \in painted}
        ys == {p[2] : p \in painted}
    IN [minX |-> IF xs = {} THEN MaxInt ELSE CHOOSE x \in xs : \A v \in xs : x <= v,
        minY |-> IF ys = {} THEN MaxInt ELSE CHOOSE y \in ys : \A v \in ys : y <= v,
        maxX |-> IF xs = {} THEN 0 ELSE CHOOSE x \in xs : \A v \in xs : v <= x,
        maxY |-> IF ys = {} THEN 0 ELSE CHOOSE y \in ys : \A v \in ys : v <= y]

\* image.Rect(x0, y0, x1, y1): the rectangle [Min, Max) with ordered corners
Rect(x0, y0, x1, y1) ==
    [MinX |-> Min(x0, x1), MinY |-> Min(y0, y1), MaxX |-> Max(x0, x1), MaxY |-> Max(y0, y1)]

RectEmpty(r) == r.MinX >= r.MaxX \/ r.MinY >= r.MaxY

ZR == [MinX |-> 0, MinY |-> 0, MaxX |-> 0, MaxY |-> 0]

\* image.Rectangle.Intersect
Intersect(r, q) ==
    LET i == [MinX |-> Max(r.MinX, q.MinX), MinY |-> Max(r.MinY, q.MinY),
              MaxX |-> Min(r.MaxX, q.MaxX), MaxY |-> Min(r.MaxY, q.MaxY)]
    IN IF RectEmpty(i) THEN ZR ELSE i

Bounds(raster) == [MinX |-> 0, MinY |-> 0, MaxX |-> raster.W, MaxY |-> raster.H]

\* the rectangle of the scan, as handed to SubImage
TrimRect(b) == Rect(b.minX, b.minY, b.maxX, b.maxY)

\* imgRGBA.SubImage(image.Rect(minX, minY, maxX, maxY)): the bounds of the
\* sub-raster, which shares the pixels of the raster
SubImage(raster) == Intersect(TrimRect(ScanBounds(raster)), Bounds(raster))

-----------------------------------------------------------------------------
(* WritePNG on the canvas image() returns.  The pixels come from the       *)
(* rasteriser and the blur filter; the canvas is kept as the boxes of the  *)
(* shapes image() paints, each box the pixel columns x0..x1-1 and rows     *)
(* y0..y1-1 the shape touches: the shadow, which the blur spreads by reach *)
(* pixels (0..shadowRadius) to every side, the window fill, the border     *)
(* stroke, the three buttons, the background rectangles, the glyph cells   *)
(* from the top of the face to the baseline, and the underlines.  The scan *)
(* of the trim sees the pixels of these boxes that lie on the canvas.      *)

Floor(num, den) == num \div den
Ceil(num, den) == -((-num) \div den)

\* the pixels a shape from (left, top) to (right, bottom) touches; top and
\* bottom are in 1/den pixels
PixelBox(left, right, top, bottom, den) ==
    [x0 |-> left, x1 |-> right, y0 |-> Floor(top, den), y1 |-> Ceil(bottom, den)]

\* the boxes of the shadow, the window fill, the border stroke and the
\* buttons on the canvas g
WindowBoxes(sc, g, reach) ==
    LET den == sc.lineSpacingDen
        left == g.xOffset
        right == g.xOffset + g.innerWidth
        top == den * g.yOffset
        bottom == den * g.yOffset + g.innerHeight
        half == Scale(sc, 1) \div 2
        radius == Scale(sc, 9)
        distance == Scale(sc, 25)
        shadow ==
            IF sc.drawShadow
            THEN {PixelBox(left + sc.shadowOffsetX - reach, right + sc.shadowOffsetX + reach,
                           top + den * (sc.shadowOffsetY - reach),
                           bottom + den * (sc.shadowOffsetY + reach), den)}
            ELSE {}
        window == {PixelBox(left, right, top, bottom, den)}
        border ==
            IF sc.drawBorder
            THEN {PixelBox(left - half, right + half, top - den * half, bottom + den * half, den)}
            ELSE {}
        buttons ==
            IF sc.drawDecorations
            THEN {PixelBox(left + sc.paddingLeft + i * distance + Scale(sc, 4) - radius,
                           left + sc.paddingLeft + i * distance + Scale(sc, 4) + radius,
                           den * (g.yOffset + sc.paddingTop + Scale(sc, 4) - radius),
                           den * (g.yOffset + sc.paddingTop + Scale(sc, 4) + radius),
                           den) : i \in 0..2}
            ELSE {}
    IN shadow \cup window \cup border \cup buttons

\* the boxes of one step d of the glyph pass: its background rectangle, its
\* glyph cell and its underline
StepBoxes(sc, d) ==
    LET den == sc.lineSpacingDen
        half == Scale(sc, 1) \div 2
        right == d.x + GlyphWidth(d.face)
        background ==
            IF d.background # NoFill
            THEN {PixelBox(d.x, right, d.y - den * (GlyphHeight(d.face) - 12), d.y + den * 12, den)}
            ELSE {}
        glyph ==
            IF d.glyph # <<>>
            THEN {PixelBox(d.x, right, d.y - den * GlyphHeight(d.face), d.y, den)}
            ELSE {}
        underline ==
            IF d.underline
            THEN {PixelBox(d.x, right, d.y + den * (Scale(sc, 4) - half),
                           d.y + den * (Scale(sc, 4) + half), den)}
            ELSE {}
    IN background \cup glyph \cup underline

\* the boxes of the shapes image() paints
PaintedBoxes(sc, terminal, reach) ==
    UNION {WindowBoxes(sc, g, reach) \cup UNION {StepBoxes(sc, steps[i]) : i \in DOMAIN steps} :
              g \in {image(sc, terminal, FALSE).img},
              steps \in {GlyphPass(sc, terminal, FALSE)}}

\* the part of a box that lies on a canvas of width x height pixels
OnCanvas(box, width, height) ==
    [x0 |-> Max(box.x0, 0), x1 |-> Min(box.x1, width),
     y0 |-> Max(box.y0, 0), y1 |-> Min(box.y1, height)]

Least(values) == CHOOSE x \in values : \A v \in values : x <= v
Greatest(values) == CHOOSE x \in values : \A v \in values : v <= x

\* minX, minY, maxX, maxY at the end of the scan of a canvas on which the
\* pixels of the boxes seen are not transparent
ScanSeen(seen) ==
    IF seen = {}
    THEN [minX |-> MaxInt, minY |-> MaxInt, maxX |-> 0, maxY |-> 0]
    ELSE [minX |-> Least({b.x0 : b \in seen}), minY |-> Least({b.y0 : b \in seen}),
          maxX |-> Greatest({b.x1 - 1 : b \in seen}),
          maxY |-> Greatest({b.y1 - 1 : b \in seen})]

ScanPainted(boxes, width, height) ==
    ScanSeen({b \in {OnCanvas(box, width, height) : box \in boxes} :
                 b.x0 < b.x1 /\ b.y0 < b.y1})

\* the bounds of the raster WritePNG hands to the encoder: with the trim on,
\* imgRGBA.SubImage(image.Rect(minX, minY, maxX, maxY))
Trimmed(sc, terminal, reach, canvas) ==
    IF sc.clipCanvas
    THEN Intersect(TrimRect(ScanPainted(PaintedBoxes(sc, terminal, reach),
                                        canvas.MaxX, canvas.MaxY)), canvas)
    ELSE canvas

\* png.Encode(w, img) of the part rect of a raster
Encode(raster, rect, clipped, encodeFails) ==
    IF RectEmpty(rect)
    THEN [encoded |-> NoImage, bounds |-> rect, clipped |-> clipped,
          err |-> "invalid image size"]
    ELSE IF encodeFails
         THEN [encoded |-> NoImage, bounds |-> rect, clipped |-> clipped,
               err |-> "encode failed"]
         ELSE [encoded |-> [raster EXCEPT !.W = rect.MaxX - rect.MinX,
                                          !.H = rect.MaxY - rect.MinY],
               bounds |-> rect, clipped |-> clipped, err |-> ""]

\* WritePNG going on to trim and encode after image() returned an error
WritePNGDespiteError(sc, terminal, blurFails, encodeFails, reach) ==
    LET made == image(sc, terminal, FALSE)
    IN [encoded |-> made.img, bounds |-> Bounds(made.img), clipped |-> sc.clipCanvas,
        err |-> image(sc, terminal, blurFails).err]

\* the result is [encoded, bounds, clipped, err]: the raster handed to
\* png.Encode and written, its bounds on the canvas, whether it was trimmed
WritePNG(sc, terminal, blurFails, encodeFails, reach) ==
    LET made == image(sc, terminal, blurFails)
    IN IF made.err # ""
       THEN [encoded |-> NoImage, bounds |-> ZR, clipped |-> FALSE, err |-> made.err]
       ELSE Encode(made.img, Trimmed(sc, terminal, reach, Bounds(made.img)),
                   sc.clipCanvas, encodeFails)

\* how far the blur may spread the shadow: not at all, or by its radius
Reaches(sc) == {0, sc.shadowRadius}

\* Write, the deprecated name of WritePNG
Write(sc, terminal, blurFails, encodeFails, reach) ==
    WritePNG(sc, terminal, blurFails, encodeFails, reach)

-----------------------------------------------------------------------------
(* The operations as actions.  Every action records the call in op and     *)
(* what the call wrote; nOps is counted by the specification.              *)

Called(name, err) == [name |-> name, err |-> err]

NoPNG == [encoded |-> NoImage, clipped |-> FALSE, err |-> ""]

\* what a WritePNG that returned res leaves behind
Wrote(res) == [encoded |-> res.encoded, clipped |-> res.clipped, err |-> res.err]

EmptyRaster == [W |-> 0, H |-> 0, px |-> <<>>]

\* a call that returns res = [s, err] and writes nothing
Returns(name, res) ==
    /\ s' = res.s
    /\ op' = Called(name, res.err)
    /\ input' = <<>>
    /\ raw' = <<>>
    /\ png' = NoPNG
    /\ drawn' = <<>>
    /\ sub' = ZR
    /\ UNCHANGED <<termColumns, environ, appended, query, answer, img>>

CallSetFontFaceRegular(face) == Returns("SetFontFaceRegular", Result(SetFontFaceRegular(s, face), ""))
CallSetFontFaceBold(face) == Returns("SetFontFaceBold", Result(SetFontFaceBold(s, face), ""))
CallSetFontFaceItalic(face) == Returns("SetFontFaceItalic", Result(SetFontFaceItalic(s, face), ""))
CallSetFontFaceBoldItalic(face) ==
    Returns("SetFontFaceBoldItalic", Result(SetFontFaceBoldItalic(s, face), ""))

CallSetColumns(columns) == Returns("SetColumns", Result(SetColumns(s, columns), ""))
CallDrawDecorations(value) == Returns("DrawDecorations", Result(DrawDecorations(s, value), ""))
CallDrawShadow(value) == Returns("DrawShadow", Result(DrawShadow(s, value), ""))
CallClipCanvas(value) == Returns("ClipCanvas", Result(ClipCanvas(s, value), ""))
CallDrawBorder(value) == Returns("DrawBorder", Result(DrawBorder(s, value), ""))

CallSetPadding(top, right, bottom, left) ==
    Returns("SetPadding", Result(SetPadding(s, top, right, bottom, left), ""))
CallSetMargin(top, right, bottom, left) ==
    Returns("SetMargin", Result(SetMargin(s, top, right, bottom, left), ""))
CallSetHorizontalPadding(value) ==
    Returns("SetHorizontalPadding", Result(SetHorizontalPadding(s, value), ""))
CallSetVerticalPadding(value) ==
    Returns("SetVerticalPadding", Result(SetVerticalPadding(s, value), ""))
CallSetHorizontalMargin(value) ==
    Returns("SetHorizontalMargin", Result(SetHorizontalMargin(s, value), ""))
CallSetVerticalMargin(value) ==
    Returns("SetVerticalMargin", Result(SetVerticalMargin(s, value), ""))

CallLoadCustomFonts(fontPaths) == Returns("LoadCustomFonts", LoadCustomFonts(s, fontPaths))

CallLoadColorscheme(colorschemeFile) ==
    Returns("LoadColorscheme", LoadColorscheme(s, colorschemeFile))

CallAddContent(in) ==
    LET res == AddContent(s, termColumns, in)
    IN /\ s' = res.s
       /\ op' = Called("AddContent", res.err)
       /\ input' = IF in.err THEN <<>> ELSE in.parsed
       /\ appended' = IF in.err THEN appended ELSE appended \o in.parsed
       /\ raw' = <<>>
       /\ png' = NoPNG
       /\ drawn' = <<>>
       /\ sub' = ZR
       /\ UNCHANGED <<termColumns, environ, query, answer, img>>

CallAddCommand(args) ==
    LET res == AddCommand(s, termColumns, args)
    IN /\ s' = res.s
       /\ op' = Called("AddCommand", res.err)
       /\ input' = CommandLine(args)
       /\ appended' = appended \o CommandLine(args)
       /\ raw' = <<>>
       /\ png' = NoPNG
       /\ drawn' = <<>>
       /\ sub' = ZR
       /\ UNCHANGED <<termColumns, environ, query, answer, img>>

CallWriteRaw(writerFails) ==
    LET res == WriteRaw(s, writerFails)
    IN /\ op' = Called("WriteRaw", res.err)
       /\ raw' = res.written
       /\ input' = <<>>
       /\ png' = NoPNG
       /\ drawn' = <<>>
       /\ sub' = ZR
       /\ UNCHANGED <<s, termColumns, environ, appended, query, answer, img>>

\* reach is how far the blur spreads the shadow
CallWritePNG(blurFails, encodeFails, reach) ==
    \E res \in {WritePNG(s, termColumns, blurFails, encodeFails, reach)} :
       /\ op' = Called("WritePNG", res.err)
       /\ png' = Wrote(res)
       /\ sub' = res.bounds
       /\ drawn' = GlyphPass(s, termColumns, blurFails)
       /\ input' = <<>>
       /\ raw' = <<>>
       /\ UNCHANGED <<s, termColumns, environ, appended, query, answer, img>>

CallWrite(blurFails, encodeFails, reach) ==
    \E res \in {Write(s, termColumns, blurFails, encodeFails, reach)} :
       /\ op' = Called("Write", res.err)
       /\ png' = Wrote(res)
       /\ sub' = res.bounds
       /\ drawn' = GlyphPass(s, termColumns, blurFails)
       /\ input' = <<>>
       /\ raw' = <<>>
       /\ UNCHANGED <<s, termColumns, environ, appended, query, answer, img>>

CallMapStandardColor(r, g, b) ==
    /\ op' = Called("mapStandardColor", "")
    /\ query' = <<r, g, b>>
    /\ answer' = mapStandardColor(s, r, g, b)
    /\ input' = <<>>
    /\ raw' = <<>>
    /\ png' = NoPNG
    /\ drawn' = <<>>
    /\ sub' = ZR
    /\ UNCHANGED <<s, termColumns, environ, appended, img>>

\* WritePNG from the point where image() has returned the raster img: the
\* trim and the encoding, pixel by pixel
TrimAndEncode ==
    LET bounds == IF s.clipCanvas THEN SubImage(img) ELSE Bounds(img)
        out == Encode([W |-> img.W, H |-> img.H], bounds, s.clipCanvas, FALSE)
    IN /\ sub' = out.bounds
       /\ op' = Called("WritePNG", out.err)
       /\ input' = <<>>
       /\ raw' = <<>>
       /\ png' = Wrote(out)
       /\ drawn' = <<>>
       /\ UNCHANGED <<s, termColumns, environ, appended, query, answer, img>>

-----------------------------------------------------------------------------
(* Inputs *)

\* the widths term.GetTerminalSize reports: none (0), or a terminal of 3 columns
TerminalWidths == {0, 3}

A == Rune("a", Plain)
B == Rune("b", Bold)
N == Rune(NL, Plain)

Decoded(parsed) == [err |-> FALSE, parsed |-> parsed]
Undecodable == [err |-> TRUE, parsed |-> <<>>]

Ls == <<"l", "s">>

Created ==
    /\ s = NewImageCreator
    /\ termColumns \in TerminalWidths
    /\ op = Called("NewImageCreator", "")
    /\ input = <<>>
    /\ appended = <<>>
    /\ raw = <<>>
    /\ png = NoPNG
    /\ query = <<>>
    /\ answer = NoMatch
    /\ sub = ZR
    /\ drawn = <<>>
    /\ nOps = 0

\* the settings of TS_COMMAND_INDICATOR: not set, set to "$", set to ""
Environments == {Unset, SetTo(<<"$">>), SetTo(<<>>)}

\* a process started without TS_COMMAND_INDICATOR
Start == Created /\ img = EmptyRaster /\ environ = Unset /\ termColumns # 0

\* a process started in any of the environments
StartIn(environments) == Created /\ img = EmptyRaster /\ environ \in environments

-----------------------------------------------------------------------------------------------------------------------------------------------------
(* Spec: every operation of the Scaffold, on a session of at most MaxOps   *)
(* calls.                                                                  *)

Counted == nOps < MaxOps /\ nOps' = nOps + 1

Uncounted == UNCHANGED nOps

Faces == {"hack.ttf"}
Lengths == {0, 3}
Sides == {<<0, 0, 0, 0>>, <<1, 2, 3, 4>>}
ShortInputs == {Decoded(q) : q \in SeqsUpTo({A, N}, MaxInput) \ {<<>>}} \cup {Undecodable}

Init == StartIn(Environments)

Next ==
    \/ \E in \in ShortInputs : Counted /\ CallAddContent(in)
    \/ \E args \in {<<Ls>>} : Counted /\ CallAddCommand(args)
    \/ \E columns \in {0, 1} : Counted /\ CallSetColumns(columns)
    \/ \E value \in BOOLEAN : Counted /\ CallDrawDecorations(value)
    \/ \E value \in BOOLEAN : Counted /\ CallDrawShadow(value)
    \/ \E value \in BOOLEAN : Counted /\ CallClipCanvas(value)
    \/ \E value \in BOOLEAN : Counted /\ CallDrawBorder(value)
    \/ \E v \in Sides : Counted /\ CallSetPadding(v[1], v[2], v[3], v[4])
    \/ \E v \in Sides : Counted /\ CallSetMargin(v[1], v[2], v[3], v[4])
    \/ \E value \in Lengths : Counted /\ CallSetHorizontalPadding(value)
    \/ \E value \in Lengths : Counted /\ CallSetVerticalPadding(value)
    \/ \E value \in Lengths : Counted /\ CallSetHorizontalMargin(value)
    \/ \E value \in Lengths : Counted /\ CallSetVerticalMargin(value)
    \/ \E face \in Faces : Counted /\ CallSetFontFaceRegular(face)
    \/ \E face \in Faces : Counted /\ CallSetFontFaceBold(face)
    \/ \E face \in Faces : Counted /\ CallSetFontFaceItalic(face)
    \/ \E face \in Faces : Counted /\ CallSetFontFaceBoldItalic(face)
    \/ \E fontPaths \in {<<"fira.otf">>, <<"hack.ttf", "broken.ttf">>} :
          Counted /\ CallLoadCustomFonts(fontPaths)
    \/ \E file \in {"full.json", "badslot.json", "missing.json"} :
          Counted /\ CallLoadColorscheme(file)
    \/ \E blurFails \in BOOLEAN, reach \in Reaches(s) :
          Counted /\ CallWritePNG(blurFails, FALSE, reach)
    \/ \E blurFails \in BOOLEAN, reach \in Reaches(s) :
          Counted /\ CallWrite(blurFails, FALSE, reach)
    \/ \E writerFails \in BOOLEAN : Counted /\ CallWriteRaw(writerFails)

Spec == Init /\ [][Next]_vars

\* C13: with the shadow on, a failing blur filter makes image() return the
\* error and no raster, and WritePNG return it with nothing trimmed, nothing
\* handed to the encoder and no glyph drawn; a WritePNG step that ends in the
\* blur error leaves the Scaffold, its content buffer included, unchanged.
C13_BlurAborts ==
    /\ [](s.drawShadow =>
            /\ image(s, termColumns, TRUE) = [img |-> NoImage, err |-> "blur failed"]
            /\ \A encodeFails \in BOOLEAN, reach \in Reaches(s) :
                  /\ WritePNG(s, termColumns, TRUE, encodeFails, reach)
                        = [encoded |-> NoImage, bounds |-> ZR, clipped |-> FALSE,
                           err |-> "blur failed"]
                  /\ Write(s, termColumns, TRUE, encodeFails, reach)
                        = WritePNG(s, termColumns, TRUE, encodeFails, reach))
    /\ [][(op'.name \in {"WritePNG", "Write"} /\ op'.err = "blur failed") =>
            /\ s.drawShadow
            /\ png'.encoded = NoImage /\ ~png'.clipped /\ png'.err = "blur failed"
            /\ sub' = ZR
            /\ drawn' = <<>>
            /\ s' = s /\ raw' = <<>>]_vars

\* a render with the shadow and the canvas trim on ended in the blur error
C13_Witness ==
    /\ op.name = "WritePNG" /\ op.err = "blur failed"
    /\ s.drawShadow /\ s.clipCanvas
    /\ png.encoded = NoImage

-----------------------------------------------------------------------------
(* SpecContent: the content buffer alone, with inputs long enough to wrap  *)
(* more than once; at most MaxWrapInput symbols are appended in all.       *)

InitContent == StartIn({Unset})

WrapInputs == SeqsUpTo({A, B, N}, MaxWrapInput) \ {<<>>}

Fits(parsed) == Len(appended) + Len(parsed) <= MaxWrapInput

NextContent ==
    \/ \E parsed \in WrapInputs :
          Fits(parsed) /\ Uncounted /\ CallAddContent(Decoded(parsed))
    \/ Uncounted /\ CallAddContent(Undecodable)
    \/ \E args \in {<<>>, <<Ls>>} :
          Fits(CommandLine(args)) /\ Uncounted /\ CallAddCommand(args)
    \/ \E columns \in 0..MaxColumns : Uncounted /\ CallSetColumns(columns)
    \/ \E writerFails \in BOOLEAN : Uncounted /\ CallWriteRaw(writerFails)

SpecContent == InitContent /\ [][NextContent]_vars

-----------------------------------------------------------------------------
(* Claims about the content buffer *)

NewlineCount(runes) == Cardinality({i \in 1..Len(runes) : runes[i].Symbol = NL})

NoNewline(runes) == NewlineCount(runes) = 0

WithoutNewlines(runes) == SelectSeq(runes, LAMBDA cr : cr.Symbol # NL)

\* what a call added to the buffer
Added(before, after) == SubSeq(after, Len(before) + 1, Len(after))

\* the column width an AddContent of the current state wraps at
Columns == IF s.columns # 0 THEN s.columns ELSE termColumns

\* content is original with newlines inserted, each directly before a symbol
\* of original and carrying that symbol's settings
RECURSIVE IsWrapOf(_, _)
IsWrapOf(content, original) ==
    IF content = <<>> THEN original = <<>>
    ELSE \/ /\ original # <<>>
            /\ content[1] = original[1]
            /\ IsWrapOf(Tail(content), Tail(original))
         \/ /\ original # <<>>
            /\ Len(content) >= 2
            /\ content[1] = Rune(NL, original[1].Settings)
            /\ content[2] = original[1]
            /\ IsWrapOf(Tail(Tail(content)), Tail(original))

\* C1: an AddContent of n symbols without a newline, at a fixed column width
\* C > 0, adds exactly n \div (C + 1) newlines to the buffer and keeps every
\* input symbol in its order.
C1_WrapProperty ==
    [][(op'.name = "AddContent" /\ op'.err = "" /\ Columns > 0 /\ NoNewline(input'))
        => /\ IsPrefix(s.content, s'.content)
           /\ NewlineCount(Added(s.content, s'.content)) = Len(input') \div (Columns + 1)
           /\ WithoutNewlines(Added(s.content, s'.content)) = input']_vars

\* an input of two symbol kinds that wrapped twice
C1_Witness ==
    /\ op.name = "AddContent" /\ op.err = ""
    /\ appended = input
    /\ input = <<A, B, A, B>>
    /\ Columns = 1
    /\ s.content = <<A, Rune(NL, Bold), B, A, Rune(NL, Bold), B>>

RECURSIVE ReadBack(_, _)
ReadBack(written, current) ==
    IF written = <<>> THEN <<>>
    ELSE IF "sgr" \in DOMAIN written[1]
         THEN ReadBack(Tail(written), written[1].sgr)
         ELSE <<Rune(written[1].sym, current)>> \o ReadBack(Tail(written), current)

\* runes holds more than c symbols in a row without a newline
RunExceeds(runes, c) ==
    \E i \in 1..Len(runes) :
        i + c <= Len(runes) /\ \A k \in i..i + c : runes[k].Symbol # NL

\* runes with a newline in its style put before every symbol that is not a
\* newline
RECURSIVE NewlineBeforeEach(_)
NewlineBeforeEach(runes) ==
    IF runes = <<>> THEN <<>>
    ELSE (IF runes[1].Symbol # NL THEN <<Rune(NL, runes[1].Settings)>> ELSE <<>>)
            \o <<runes[1]>> \o NewlineBeforeEach(Tail(runes))

C8_AppendOnly ==
    [][/\ IsPrefix(s.content, s'.content)
       /\ (op'.name = "AddContent" /\ op'.err # "" => s'.content = s.content)]_vars

\* an AddContent on a buffer that holds content
C8_Witness ==
    /\ op.name = "AddContent" /\ op.err = ""
    /\ Len(appended) > Len(input)
    /\ Len(input) > 0

-----------------------------------------------------------------------------
(* SpecRender: content, geometry and the toggles, rendered by WritePNG; at  *)
(* most MaxRenderInput symbols are appended, or one command line.          *)

DashLa == <<"-", "l", "a">>

RenderInputs == SeqsUpTo({A, N}, MaxRenderInput) \ {<<>>}

InitRender == Start

NextRender ==
    \/ \E parsed \in RenderInputs :
          /\ Len(appended) + Len(parsed) <= MaxRenderInput
          /\ Uncounted /\ CallAddContent(Decoded(parsed))
    \/ \E args \in {<<Ls, DashLa>>} :
          appended = <<>> /\ Uncounted /\ CallAddCommand(args)
    \/ \E columns \in {0, 8} : Uncounted /\ CallSetColumns(columns)
    \/ \E v \in Sides : Uncounted /\ CallSetPadding(v[1], v[2], v[3], v[4])
    \/ \E v \in Sides : Uncounted /\ CallSetMargin(v[1], v[2], v[3], v[4])
    \/ \E value \in BOOLEAN : Uncounted /\ CallDrawDecorations(value)
    \/ \E value \in BOOLEAN : Uncounted /\ CallDrawShadow(value)
    \/ \E value \in BOOLEAN : Uncounted /\ CallDrawBorder(value)
    \/ \E face \in {"fira.otf"} : Uncounted /\ CallSetFontFaceRegular(face)
    \/ \E blurFails \in BOOLEAN : Uncounted /\ CallWritePNG(blurFails, FALSE, 0)

SpecRender == InitRender /\ [][NextRender]_vars

Rendered == op.name = "WritePNG" /\ op.err = ""

\* the content box of the claim: the measured width clamped to the footprint
\* of the decorations, and the measured height in 1/lineSpacingDen pixels
ClampedWidth == Max(measureContent(s, termColumns).width, 3 * (2 * 25) + 3 * (2 * 9))
MeasuredHeight == measureContent(s, termColumns).height

TitleBar == IF s.drawDecorations THEN 2 * 40 ELSE 0

CanvasWidth == ClampedWidth + s.paddingLeft + s.paddingRight + s.marginLeft + s.marginRight

\* in 1/lineSpacingDen pixels
CanvasHeight ==
    MeasuredHeight
      + s.lineSpacingDen * (s.paddingTop + s.paddingBottom + s.marginTop + s.marginBottom + TitleBar)

\* C9 as stated: the raster has exactly the width and the height of the sums.
C9_CanvasIsSum ==
    Rendered => /\ png.encoded.W = CanvasWidth
                /\ png.encoded.H * s.lineSpacingDen = CanvasHeight

\* C9 as amended: the raster has the width of the sum and the height of the
\* sum cut to whole pixels, whatever the shadow and border toggles are; with
\* paddings and margins 0 and decorations off that is the clamped content box
\* cut to whole pixels.
C9_CanvasIsSumCut ==
    Rendered => /\ png.encoded.W = CanvasWidth
                /\ png.encoded.H = CanvasHeight \div s.lineSpacingDen
                /\ (/\ s.paddingTop + s.paddingRight + s.paddingBottom + s.paddingLeft = 0
                    /\ s.marginTop + s.marginRight + s.marginBottom + s.marginLeft = 0
                    /\ ~s.drawDecorations)
                      => /\ png.encoded.W = ClampedWidth
                         /\ png.encoded.H = MeasuredHeight \div s.lineSpacingDen

\* a render with unequal sides, no decorations, no shadow, no border and a
\* content wider than the decoration footprint
C9_Witness ==
    /\ Rendered
    /\ ~s.drawDecorations /\ ~s.drawShadow /\ ~s.drawBorder
    /\ s.paddingLeft = 8 /\ s.paddingRight = 4 /\ s.marginTop = 2 /\ s.marginBottom = 6
    /\ png.encoded.W > 204 + 12 + 12
    /\ png.encoded.H * s.lineSpacingDen < CanvasHeight

\* the number of logical lines of the claim
LastIsNewline(runes) == Len(runes) > 0 /\ runes[Len(runes)].Symbol = NL

LineCount(runes) == NewlineCount(runes) + 1 - (IF LastIsNewline(runes) THEN 1 ELSE 0)

\* C10: the measured height is N x fontHeight x lineSpacing, N the number of
\* lines after one final newline is dropped; N >= 1, and a buffer of k lines
\* that each end in a newline has N = k.
C10_MeasuredLines ==
    Rendered =>
        /\ png.encoded.contentHeight
              = LineCount(s.content) * FaceHeight(s.regular) * s.lineSpacingNum
        /\ LineCount(s.content) >= 1
        /\ (LastIsNewline(s.content) => LineCount(s.content) = NewlineCount(s.content))

\* a buffer that ends in two newlines was measured as two lines
C10_Witness ==
    /\ Rendered
    /\ Symbols(s.content) = <<"a", NL, NL>>
    /\ png.encoded.contentHeight = 2 * 56 * 6

-----------------------------------------------------------------------------
(* SpecColor: colorschemes are loaded and colours resolved *)

SampleColors ==
    {<<r, g, b>> : r \in {0, 100, 205, 255}, g \in {0, 100, 255}, b \in {0, 100, 255}}
      \cup {<<128, 0, 0>>, <<130, 0, 0>>, <<194, 54, 33>>, <<92, 92, 255>>, <<0, 0, 238>>,
            <<48, 60, 64>>, <<48, 60, 65>>, <<47, 60, 64>>, <<64, 64, 64>>, <<127, 127, 127>>,
            <<129, 131, 131>>, <<233, 235, 235>>}

InitColor == Start

NextColor ==
    \/ \E file \in ColorschemeFiles : Uncounted /\ CallLoadColorscheme(file)
    \/ \E q \in SampleColors : Uncounted /\ CallMapStandardColor(q[1], q[2], q[3])

SpecColor == InitColor /\ [][NextColor]_vars

\* a load that failed on the content of the file
FailedOnContent(o) ==
    o.name = "LoadColorscheme" /\ o.err \notin {"", "failed to read colorscheme file"}

\* C2: a LoadColorscheme that fails on the content of its file leaves the
\* slot overrides, the default foreground and the default background as they
\* were before the call.
C2_LoadIsAtomic ==
    [][FailedOnContent(op')
        => /\ s'.customColors.entries = s.customColors.entries
           /\ s'.defaultForegroundColor = s.defaultForegroundColor
           /\ s'.defaultBackgroundColor = s.defaultBackgroundColor]_vars

Resolved == op.name = "mapStandardColor"

\* the triple is a key of the exact-match table
IsReference(q) ==
    \E i \in 1..Len(standardColors) :
        <<standardColors[i][1], standardColors[i][2], standardColors[i][3]>> = q

\* the squared distance of the triple to every canonical colour is at or
\* above the threshold
IsFar(q) ==
    \A k \in 1..Len(ansiColors) :
        (q[1] - ansiColors[k][1]) * (q[1] - ansiColors[k][1])
          + (q[2] - ansiColors[k][2]) * (q[2] - ansiColors[k][2])
          + (q[3] - ansiColors[k][3]) * (q[3] - ansiColors[k][3]) >= 10000

\* C4: mapStandardColor reports no match for a triple that is no key of the
\* exact-match table and is at distance 10000 or more from each of the 16
\* canonical colours.
C4_NoMatchWhenFar ==
    (Resolved /\ ~IsReference(query) /\ IsFar(query)) => ~answer.found

\* a triple at distance exactly 10000 from black and from blue, both of which
\* the loaded scheme overrides, was not matched
C4_Witness ==
    /\ Resolved
    /\ query = <<48, 60, 64>>
    /\ ~s.customColors.isNil
    /\ {0, 4} \subseteq DOMAIN s.customColors.entries
    /\ ~answer.found

\* the slots the exact-match table gives the triple
SlotsOf(q) ==
    {standardColors[i][4] : i \in {j \in 1..Len(standardColors) :
        <<standardColors[j][1], standardColors[j][2], standardColors[j][3]>> = q}}

\* C5: for a reference triple of slot k, mapStandardColor returns the override
\* of slot k when the scheme has one, and no other slot's override when it has
\* none.
C5_ExactSelectsSlot ==
    (Resolved /\ ~s.customColors.isNil)
        => \A k \in SlotsOf(query) :
              IF k \in DOMAIN s.customColors.entries
              THEN answer = [color |-> s.customColors.entries[k], found |-> TRUE]
              ELSE ~answer.found

-----------------------------------------------------------------------------
(* SpecFonts: the font slots *)

FontPathLists == SeqsUpTo(FontPaths, MaxPaths)

InitFonts == Start

NextFonts ==
    \/ \E fontPaths \in FontPathLists : Uncounted /\ CallLoadCustomFonts(fontPaths)
    \/ \E face \in Faces : Uncounted /\ CallSetFontFaceRegular(face)
    \/ \E face \in Faces : Uncounted /\ CallSetFontFaceBold(face)
    \/ \E face \in Faces : Uncounted /\ CallSetFontFaceItalic(face)
    \/ \E face \in Faces : Uncounted /\ CallSetFontFaceBoldItalic(face)

SpecFonts == InitFonts /\ [][NextFonts]_vars

FontSlots(sc) == <<sc.regular, sc.bold, sc.italic, sc.boldItalic>>

\* C7: a LoadCustomFonts that returns an error leaves the four font slots as
\* they were before the call.
C7_FontsAllOrNothing ==
    [][(op'.name = "LoadCustomFonts" /\ op'.err # "") => FontSlots(s') = FontSlots(s)]_vars

\* the lists of at most four paths whose files all are fonts
LoadableLists ==
    {fontPaths \in FontPathLists :
        Len(fontPaths) <= 4 /\ LoadCustomFonts(NewImageCreator, fontPaths).err = ""}

\* the slots after, given the slots before and the paths loaded
Filled(before, after, fontPaths) ==
    LET n == Len(fontPaths)
    IN CASE n = 0 -> after = before
         [] n = 1 -> \A i \in 1..4 : after[i] = NewFace(fontPaths[1])
         [] OTHER -> \A i \in 1..4 :
                        after[i] = IF i <= n THEN NewFace(fontPaths[i]) ELSE before[i]

\* C12: a LoadCustomFonts that succeeds on n <= 4 paths fills all four slots
\* with the one face when n = 1, fills the first n slots in the order regular,
\* bold, italic, bold-italic and keeps the others when 2 <= n <= 4, and changes
\* no slot when n = 0.
C12_SlotsFilled ==
    [][(op'.name = "LoadCustomFonts" /\ op'.err = "") =>
          \A fontPaths \in LoadableLists :
              LoadCustomFonts(s, fontPaths).s = s' =>
                  Filled(FontSlots(s), FontSlots(s'), fontPaths)]_vars

\* two paths were loaded: the italic and bold-italic slots kept their faces
C12_Witness ==
    /\ op.name = "LoadCustomFonts" /\ op.err = ""
    /\ FontSlots(s) = <<"fira.otf", "hack.ttf", "Hack-Italic", "Hack-BoldItalic">>

-----------------------------------------------------------------------------
(* SpecTrim: the canvas trim of WritePNG.  WritePNG runs on the canvas of   *)
(* the window with the shadow, the border and the buttons on or off; the   *)
(* scan of the trim also runs pixel by pixel on every raster of at most    *)
(* MaxRasterW x MaxRasterH pixels with one paint, img, handed to it in the *)
(* place of the canvas (img is EmptyRaster when the canvas is used).       *)

RasterOf(w, h, painted, paint) ==
    [W |-> w, H |-> h,
     px |-> [x \in 0..w - 1 |-> [y \in 0..h - 1 |->
                IF <<x, y>> \in painted THEN paint ELSE Transparent]]]

Rasters ==
    {RasterOf(w, h, painted, paint) :
        w \in 1..MaxRasterW, h \in 1..MaxRasterH,
        painted \in SUBSET ((0..MaxRasterW - 1) \X (0..MaxRasterH - 1)),
        paint \in {OpaqueBlack, ShadowGray}}

InitTrim ==
    Created /\ img \in Rasters \cup {EmptyRaster} /\ environ = Unset /\ termColumns # 0

NextTrim ==
    \/ \E value \in BOOLEAN : Uncounted /\ CallClipCanvas(value)
    \/ \E value \in BOOLEAN : img = EmptyRaster /\ Uncounted /\ CallDrawShadow(value)
    \/ \E value \in BOOLEAN : img = EmptyRaster /\ Uncounted /\ CallDrawBorder(value)
    \/ \E value \in BOOLEAN : img = EmptyRaster /\ Uncounted /\ CallDrawDecorations(value)
    \/ \E reach \in Reaches(s) :
          img = EmptyRaster /\ Uncounted /\ CallWritePNG(FALSE, FALSE, reach)
    \/ img # EmptyRaster /\ Uncounted /\ TrimAndEncode

SpecTrim == InitTrim /\ [][NextTrim]_vars

\* the pixels of the raster that are not fully transparent
Visible(raster) ==
    {p \in (0..raster.W - 1) \X (0..raster.H - 1) : raster.px[p[1]][p[2]][4] # 0}

Inside(p, r) == r.MinX <= p[1] /\ p[1] < r.MaxX /\ r.MinY <= p[2] /\ p[2] < r.MaxY

\* the pixels of the canvas under the window fill, the border, the buttons
\* and the shadow as drawn, before the blur spreads it
CanvasBoxes ==
    {OnCanvas(box, canvas.W, canvas.H) :
        box \in PaintedBoxes(s, termColumns, 0), canvas \in {image(s, termColumns, FALSE).img}}

Holds(r, box) ==
    r.MinX <= box.x0 /\ box.x1 <= r.MaxX /\ r.MinY <= box.y0 /\ box.y1 <= r.MaxY

\* C3: with clip-canvas on, the sub-raster of a raster that has a visible
\* pixel holds every visible pixel, and its first and last column and row
\* each hold one; the sub-raster WritePNG encodes of the canvas holds every
\* pixel the window, the border, the buttons and the shadow are drawn on.
C3_TrimIsBoundingBox ==
    /\ (op.name = "WritePNG" /\ s.clipCanvas /\ img # EmptyRaster /\ Visible(img) # {})
          => /\ \A p \in Visible(img) : Inside(p, sub)
             /\ \E p \in Visible(img) : p[1] = sub.MinX
             /\ \E p \in Visible(img) : p[1] = sub.MaxX - 1
             /\ \E p \in Visible(img) : p[2] = sub.MinY
             /\ \E p \in Visible(img) : p[2] = sub.MaxY - 1
    /\ (op.name = "WritePNG" /\ s.clipCanvas /\ img = EmptyRaster /\ op.err = "")
          => \A box \in CanvasBoxes : Holds(sub, box)

-----------------------------------------------------------------------------
(* SpecGlyph: the glyph pass over short buffers of symbols in every        *)
(* emphasis, underlined or not, coloured or not, with tabs and newlines,   *)
(* with and without a colorscheme and with a second font in the bold slot. *)

Style(flags) == [flags |-> flags, fg |-> NoRGB, bg |-> NoRGB]

StandardRed == <<128, 0, 0>>
Background(rgb) == [flags |-> 2, fg |-> NoRGB, bg |-> rgb]

GlyphRunes ==
    {Rune("a", Style(e + u)) : e \in {0, 4, 8, 12}, u \in {0, 16}}
      \cup {Rune("a", Foreground(StandardRed)), Rune("a", Background(StandardRed)),
            Rune(TAB, Plain), Rune(TAB, Style(16)),
            Rune(NL, Plain), Rune(NL, Bold),
            Rune(Ballot, Plain)}

\* the symbols that follow the first one of an input
TailRunes ==
    {Rune("a", Plain), Rune("a", Style(4 + 16)), Rune("a", Foreground(StandardRed)),
     Rune(TAB, Plain), Rune(NL, Plain)}

GlyphInputs ==
    {<<first>> \o rest : first \in GlyphRunes, rest \in SeqsUpTo(TailRunes, MaxGlyphInput - 1)}

InitGlyph == Start

NextGlyph ==
    \/ \E parsed \in GlyphInputs :
          /\ appended = <<>>
          /\ Uncounted /\ CallAddContent(Decoded(parsed))
    \/ \E file \in {"red.json"} : Uncounted /\ CallLoadColorscheme(file)
    \/ \E face \in {"fira.otf"} : Uncounted /\ CallSetFontFaceBold(face)
    \/ \E blurFails \in BOOLEAN : Uncounted /\ CallWritePNG(blurFails, FALSE, 0)

SpecGlyph == InitGlyph /\ [][NextGlyph]_vars

\* the underline flag, bit 4 of the style bits
UnderlineFlag(settings) == (settings.flags \div 16) % 2 = 1

\* the 2-bit emphasis code, bits 2..3 of the style bits
EmphasisCode(settings) == (settings.flags \div 4) % 4

IsText(sym) == sym \notin {NL, TAB}

\* C11: every drawn symbol (no newline, no tab) is underlined exactly when
\* its underline flag is set, whatever its emphasis code is.
C11_UnderlineFollowsFlag ==
    \A i \in 1..Len(drawn) :
        IsText(drawn[i].Symbol) =>
            (drawn[i].underline <=> UnderlineFlag(drawn[i].Settings))

\* C14: LoadColorscheme is the only operation that makes the override map,
\* and while there is none mapStandardColor finds nothing for any triple,
\* getColor returns its fallback for every index, and the glyph pass paints
\* every symbol that has a colour flag set with the triple in its style bits.
C14_NoSchemeNoResolution ==
    /\ [][op'.name # "LoadColorscheme" => s'.customColors = s.customColors]_vars
    /\ [](s.customColors.isNil =>
            /\ \A q \in SampleColors : ~mapStandardColor(s, q[1], q[2], q[3]).found
            /\ \A index \in 0..15 : \A fallback \in {LightGray, StandardRed} :
                    getColor(s, index, fallback) = fallback
            /\ \A i \in 1..Len(drawn) :
                    /\ ForegroundSet(drawn[i].Settings) =>
                            drawn[i].color = drawn[i].Settings.fg
                    /\ BackgroundSet(drawn[i].Settings) =>
                            drawn[i].background = drawn[i].Settings.bg)

\* without a scheme a symbol in standard red was painted in standard red
C14_Witness ==
    /\ op.name = "WritePNG" /\ op.err = ""
    /\ s.customColors.isNil
    /\ \E i \in 1..Len(drawn) :
          ForegroundSet(drawn[i].Settings) /\ drawn[i].color = StandardRed
    /\ \E i \in 1..Len(drawn) :
          BackgroundSet(drawn[i].Settings) /\ drawn[i].background = StandardRed

\* the left content edge and the first baseline of the last render
LeftEdge == png.encoded.xOffset + s.paddingLeft
FirstBaseline ==
    s.lineSpacingDen * (png.encoded.yOffset + s.paddingTop + TitleBar + FaceHeight(s.regular))

\* the measured width of one symbol under a face
WidthUnder(face) == FaceAdvance(face) \div 64

\* C15: in the glyph pass a tab moves x by the measured width times tabSpaces
\* (two widths), keeps y and draws neither glyph nor underline; a newline
\* puts x back to the left content edge, moves y down by the glyph height
\* times the line spacing and draws no glyph; every other symbol draws one
\* glyph and then moves x by its measured width, y unchanged.  Each symbol
\* starts where the one before it ended, the first at the left content edge.
\* (y is in 1/lineSpacingDen pixels, so height x lineSpacing is height x
\* lineSpacingNum.)
C15_CursorMoves ==
    \A i \in 1..Len(drawn) :
        LET d == drawn[i]
            w == WidthUnder(d.face)
        IN /\ d.x = (IF i = 1 THEN LeftEdge ELSE drawn[i - 1].xAfter)
           /\ d.y = (IF i = 1 THEN FirstBaseline ELSE drawn[i - 1].yAfter)
           /\ CASE d.Symbol = TAB ->
                      /\ d.xAfter = d.x + w * s.tabSpaces
                      /\ d.xAfter = d.x + 2 * w
                      /\ d.yAfter = d.y
                      /\ d.glyph = <<>> /\ ~d.underline
                [] d.Symbol = NL ->
                      /\ d.xAfter = LeftEdge
                      /\ d.yAfter = d.y + FaceHeight(d.face) * s.lineSpacingNum
                      /\ d.glyph = <<>>
                [] OTHER ->
                      /\ Len(d.glyph) = 1
                      /\ d.xAfter = d.x + w
                      /\ d.yAfter = d.y

\* a tab at column 0 moved the cursor by two glyph widths and the symbol
\* after it was drawn there
C15_Witness ==
    /\ op.name = "WritePNG" /\ op.err = ""
    /\ Len(drawn) = 2
    /\ drawn[1].Symbol = TAB /\ drawn[1].x = LeftEdge
    /\ drawn[2].Symbol = "a" /\ drawn[2].x = LeftEdge + 2 * 28
    /\ drawn[2].glyph = <<"a">>

\* C16: the face set for a symbol is the slot of its 2-bit emphasis code:
\* regular, bold, italic, bold-italic for the codes 0, 1, 2, 3, whatever its
\* underline flag and colour bits are.
C16_FaceByEmphasis ==
    \A i \in 1..Len(drawn) :
        drawn[i].face = FontSlots(s)[EmphasisCode(drawn[i].Settings) + 1]

-----------------------------------------------------------------------------
(* Further claims about the content buffer, under SpecContent *)

\* the logical lines of a buffer: the runs of symbols between newlines
LogicalLines(runes) == SplitNL(Symbols(runes), 1, <<>>)

\* C17: after one AddContent on an empty buffer at a fixed column width
\* C > 0, every logical line of the buffer has at most C symbols, and every
\* newline inserted carries the style bits of the symbol it was put before.
C17_LinesFitColumns ==
    [][(op'.name = "AddContent" /\ op'.err = "" /\ s.content = <<>> /\ Columns > 0)
        => /\ \A k \in 1..Len(LogicalLines(s'.content)) :
                  Len(LogicalLines(s'.content)[k]) <= Columns
           /\ IsWrapOf(s'.content, input')]_vars

\* the buffer one AddContent of runes leaves on a fresh Scaffold set to the
\* column setting of the current one
SingleCall(runes) ==
    AddContent(SetColumns(NewImageCreator, s.columns), termColumns, Decoded(runes)).s.content

\* C18: when the buffer is what one AddContent(a) left, a following
\* AddContent(b) at the same column width leaves what one AddContent(a ++ b)
\* leaves on an empty buffer.
C18_AppendComposes ==
    [][(/\ op'.name = "AddContent" /\ op'.err = ""
        /\ Columns > 0
        /\ s.content = SingleCall(appended))
        => s'.content = SingleCall(appended \o input')]_vars

-----------------------------------------------------------------------------
(* Further claims about the canvas, under SpecRender *)

\* C19: the window rectangle of a render, with origin (xOffset, yOffset) and
\* size innerWidth x innerHeight, lies inside the canvas, and the glyph cursor
\* starts at x >= 0 and y >= 0.  (Heights are in 1/lineSpacingDen pixels.)
C19_WindowOnCanvas ==
    Rendered =>
        /\ png.encoded.xOffset >= 0
        /\ png.encoded.yOffset >= 0
        /\ png.encoded.xOffset + png.encoded.innerWidth <= CanvasWidth
        /\ s.lineSpacingDen * png.encoded.yOffset + png.encoded.innerHeight <= CanvasHeight
        /\ png.encoded.xOffset + s.paddingLeft >= 0
        /\ png.encoded.yOffset + s.paddingTop + TitleBar + FaceHeight(s.regular) >= 0

-----------------------------------------------------------------------------
(* A further claim about the colorscheme loader, under SpecColor *)

\* the state the colour resolver reads
ResolverState(sc) ==
    <<sc.customColors, sc.defaultForegroundColor, sc.defaultBackgroundColor>>

\* the Scaffold is what a successful load of one file left on a fresh one
LoadedOnce(sc) ==
    \E file \in ColorschemeFiles : LoadColorscheme(NewImageCreator, file) = Result(sc, "")

\* C20: a successful LoadColorscheme(B) on a Scaffold that a successful
\* LoadColorscheme(A) left leaves the slot overrides, the default foreground
\* and the default background that LoadColorscheme(B) leaves on a fresh
\* Scaffold.
C20_LaterSchemeReplaces ==
    [][(op'.name = "LoadColorscheme" /\ op'.err = "" /\ LoadedOnce(s)) =>
          \A file \in ColorschemeFiles :
              LoadColorscheme(s, file) = Result(s', "") =>
                  ResolverState(s') = ResolverState(LoadColorscheme(NewImageCreator, file).s)]_vars

====
